---- MODULE Spec2Model ----
(***************************************************************************)
(* A model of file_bundler.h: the Input_Stream / Output_Stream helpers,    *)
(* the File record, bundle() and debundle() with their public overloads.   *)
(*                                                                         *)
(* Bytes and characters are numbers 0..255; a std::string or a byte        *)
(* buffer is a sequence of them ("a" = <<97>>, "d/a" = <<100, 47, 97>>).   *)
(* A std::uint64_t is written to a bundle as its 8 bytes, least            *)
(* significant first (the object representation on a little-endian         *)
(* build).  All sizes of the model stay far below 2^31, so no 64-bit sum   *)
(* of the code wraps around within the bounds.                             *)
(***************************************************************************)
EXTENDS Integers, Sequences, FiniteSets, TLC

VARIABLES
  p_files,   \* the caller's std::vector<File> handed to bundle()
  package,   \* the File bundle() returned last
  written,   \* the bytes the last bundle() call wrote to its sink, in order
  disk,      \* regular files: path |-> content
  dirs,      \* the directories that exist
  log,       \* filesystem calls of the last debundle(), in program order
  pc,        \* where the calling thread is
  listed,    \* the File list the last bundle() call worked on
  to_disk,   \* whether the sink of the last bundle() call is the bundle path
  from_memory, \* whether the last bundle() call took the payloads from memory
  d,         \* the frame of debundle(): its locals and its input stream
  strm,      \* a memory-backed Input_Stream exercised on its own
  dst,       \* the destination buffer of the last read on strm
  last       \* the last request made on strm, with the state before it

vars == <<p_files, package, written, disk, dirs, log, pc, listed, to_disk,
          from_memory, d, strm, dst, last>>

(***************************************************************************)
(* Program constants.                                                      *)
(***************************************************************************)
HeaderMetadataSize == 24
U64Size == 8
CHAR_MAX == 127
NUL == 0
Slash == 47
Backslash == 92

(***************************************************************************)
(* Bounds of the model.                                                    *)
(***************************************************************************)
MaxFiles == 2
NameCap == 5
MaxMem == 5
MaxCount == 3

Min(a, b) == IF a < b THEN a ELSE b

Fill(n, b) == [k \in 1..n |-> b]

(***************************************************************************)
(* reinterpret_cast<std::uint8_t*>(&u64): the 8 bytes of a 64-bit value,   *)
(* and the value 8 bytes stand for.                                        *)
(***************************************************************************)
RECURSIVE BytesLE(_, _)
BytesLE(n, k) ==
  IF k = 0 THEN <<>> ELSE <<n % 256>> \o BytesLE(n \div 256, k - 1)

EncodeU64(n) == BytesLE(n, U64Size)

RECURSIVE DecodeU64(_)
DecodeU64(bs) ==
  IF bs = <<>> THEN 0 ELSE Head(bs) + 256 * DecodeU64(Tail(bs))

(***************************************************************************)
(* Base_Stream.  `memory_set` is `this->memory != nullptr`.  The fstream   *)
(* member is `file`: `good` is false once a read failed or when open()     *)
(* failed; every later read on it does nothing.                            *)
(***************************************************************************)
NoFile == [path |-> <<>>, good |-> FALSE, content |-> <<>>, pos |-> 0]

MemoryInput(p_address, p_size) ==
  [memory_set |-> TRUE, memory |-> p_address, memory_size |-> p_size,
   current_offset |-> 0, file |-> NoFile]

\* std::ios::in: the open succeeds when the path is a file of the disk.
FileInput(p_file_name, dsk) ==
  [memory_set |-> FALSE, memory |-> <<>>, memory_size |-> 0,
   current_offset |-> 0,
   file |-> IF p_file_name \in DOMAIN dsk
            THEN [path |-> p_file_name, good |-> TRUE,
                  content |-> dsk[p_file_name], pos |-> 0]
            ELSE [NoFile EXCEPT !.path = p_file_name]]

\* std::istream::read: all p_size bytes, or the bytes left and failbit.
FileRead(f, buf, p_size) ==
  LET left == Len(f.content) - f.pos
      n == IF left < 0 THEN 0 ELSE Min(p_size, left)
  IN  IF ~f.good THEN [file |-> f, buf |-> buf]
      ELSE IF n = p_size
      THEN [file |-> [f EXCEPT !.pos = @ + n],
            buf |-> SubSeq(f.content, f.pos + 1, f.pos + n)]
      ELSE [file |-> [f EXCEPT !.pos = @ + n, !.good = FALSE],
            buf |-> SubSeq(f.content, f.pos + 1, f.pos + n)
                      \o SubSeq(buf, n + 1, p_size)]

\* A variant of InputRead with `>` for `>=`: the last byte is readable.
InputReadOffByOne(s, buf, p_size) ==
  IF s.memory_set
  THEN IF s.current_offset + p_size > s.memory_size
       THEN [stream |-> s, buf |-> buf]
       ELSE [stream |-> [s EXCEPT !.current_offset = @ + p_size],
             buf |-> SubSeq(s.memory, s.current_offset + 1,
                            s.current_offset + p_size)]
  ELSE LET r == FileRead(s.file, buf, p_size)
       IN  [stream |-> [s EXCEPT !.file = r.file], buf |-> r.buf]

\* Input_Stream::read(p_address, p_size); buf is *p_address before the call.
InputRead(s, buf, p_size) ==
  IF s.memory_set
  THEN IF s.current_offset + p_size >= s.memory_size
       THEN [stream |-> s, buf |-> buf]
       ELSE [stream |-> [s EXCEPT !.current_offset = @ + p_size],
             buf |-> SubSeq(s.memory, s.current_offset + 1,
                            s.current_offset + p_size)]
  ELSE LET r == FileRead(s.file, buf, p_size)
       IN  [stream |-> [s EXCEPT !.file = r.file], buf |-> r.buf]

\* Input_Stream::seekg(p_offset).
InputSeekg(s, p_offset) ==
  IF s.memory_set
  THEN IF p_offset <= s.memory_size
       THEN [s EXCEPT !.current_offset = p_offset]
       ELSE s
  ELSE IF s.file.good THEN [s EXCEPT !.file.pos = p_offset] ELSE s

(***************************************************************************)
(* Output_Stream.  A stream opened on a vector or on raw memory writes     *)
(* through `memory`; a stream opened on a path appends to the file, and a  *)
(* stream that was never opened, or whose open() failed, drops the bytes   *)
(* (the counter still advances).                                           *)
(***************************************************************************)
HasSlash(path) == \E k \in 1..Len(path) : path[k] = Slash

\* The directory part of a path as the filesystem reads it.
DirName(path) ==
  LET ks == {k \in 1..Len(path) : path[k] = Slash}
      k == CHOOSE k \in ks : \A j \in ks : j <= k
  IN  IF ks = {} THEN <<>> ELSE SubSeq(path, 1, k - 1)

ParentExists(path, drs) ==
  ~HasSlash(path) \/ DirName(path) = <<>> \/ DirName(path) \in drs

\* std::string::c_str() as a path: the characters before the first NUL.
CStr(s) ==
  LET ks == {k \in 1..Len(s) : s[k] = NUL}
      k == CHOOSE k \in ks : \A j \in ks : k <= j
  IN  IF ks = {} THEN s ELSE SubSeq(s, 1, k - 1)

UnopenedOutput ==
  [memory_set |-> FALSE, vector |-> FALSE, memory |-> <<>>, memory_size |-> 0,
   current_offset |-> 0, total_bytes_written |-> 0, file_name |-> <<>>,
   file |-> NoFile]

\* Base_Stream::open(std::vector*, p_size): reserve(p_size + 1) makes data()
\* a real pointer even for an empty vector.
VectorOutput(p_size) ==
  [UnopenedOutput EXCEPT !.memory_set = TRUE, !.vector = TRUE,
                         !.memory = Fill(p_size, 0), !.memory_size = p_size]

\* Base_Stream::open(p_address, p_size) on the data() of a vector of p_size
\* bytes; data() of an empty vector is taken to be null (nothing is written
\* through it either way).
MemoryOutput(p_address, p_size) ==
  [UnopenedOutput EXCEPT !.memory_set = (p_size > 0), !.memory = p_address,
                         !.memory_size = p_size]

\* Base_Stream::open(p_file_name, out | binary | app): creates the file when
\* its directory exists, and keeps what the file holds.
FileOutput(p_file_name, dsk, drs) ==
  LET path == CStr(p_file_name)
      ok == path # <<>> /\ ParentExists(path, drs) /\ path \notin drs
  IN  [UnopenedOutput EXCEPT
         !.file_name = p_file_name,
         !.file = [path |-> path, good |-> ok, pos |-> 0,
                   content |-> IF path \in DOMAIN dsk THEN dsk[path]
                               ELSE <<>>]]

\* std::memcpy(memory + offset, data, size) inside the region.
Overwrite(mem, offset, data) ==
  [k \in 1..Len(mem) |->
     IF k > offset /\ k <= offset + Len(data) THEN data[k - offset]
     ELSE mem[k]]

\* Output_Stream::write(p_address, p_size) with data = the p_size bytes.
OutputWrite(o, data) ==
  LET p_size == Len(data) IN
  IF o.memory_set
  THEN LET grow == o.vector /\ o.current_offset + p_size > o.memory_size
           mem == IF grow THEN o.memory \o Fill(p_size, 0) ELSE o.memory
       IN  [o EXCEPT !.memory = Overwrite(mem, o.current_offset, data),
                     !.memory_size = Len(mem),
                     !.current_offset = @ + p_size,
                     !.total_bytes_written = @ + p_size]
  ELSE [o EXCEPT !.file.content = IF o.file.good THEN @ \o data ELSE @,
                 !.total_bytes_written = @ + p_size]

\* The disk once the stream's fstream is opened, written and closed.
Flushed(o, dsk) ==
  IF o.file.good
  THEN [p \in DOMAIN dsk \cup {o.file.path} |->
          IF p = o.file.path THEN o.file.content ELSE dsk[p]]
  ELSE dsk

(***************************************************************************)
(* File: constructors and setters.                                         *)
(***************************************************************************)
FileDefault == [name |-> <<>>, size |-> 0, bytes |-> <<>>]

\* File(name, p_address, p_size): mem is the p_size bytes at p_address.
FileFromAddress(p_file_name, mem) ==
  [name |-> p_file_name, size |-> Len(mem), bytes |-> mem]

\* File(name, std::vector<std::uint8_t>).
FileFromVector(p_file_name, p_bytes) ==
  [name |-> p_file_name, size |-> Len(p_bytes), bytes |-> p_bytes]

\* File(name, p_size).
FileDescriptor(p_file_name, p_size) ==
  [name |-> p_file_name, size |-> p_size, bytes |-> <<>>]

set_size(f, p_file_size) == [f EXCEPT !.size = p_file_size]

set_name(f, p_file_name) == [f EXCEPT !.name = p_file_name]

\* set_bytes(std::vector<std::uint8_t>).
set_bytes(f, p_bytes) == [f EXCEPT !.bytes = p_bytes]

\* set_bytes(p_address, p_size, p_deallocate = false).
set_bytes_from(f, mem) == [f EXCEPT !.size = Len(mem), !.bytes = mem]

(***************************************************************************)
(* bundle(Output_Stream&, files, p_from_memory).                           *)
(***************************************************************************)
RECURSIVE SumNames(_)
SumNames(fs) ==
  IF fs = <<>> THEN 0 ELSE Len(Head(fs).name) + 1 + SumNames(Tail(fs))

RECURSIVE SumSizes(_)
SumSizes(fs) == IF fs = <<>> THEN 0 ELSE Head(fs).size + SumSizes(Tail(fs))

\* Header_Metadata as default-initialized.
HeaderMetadata ==
  [names_section_size |-> 0, sizes_section_size |-> 0,
   files_section_size |-> 0]

\* A variant of Metadata that counts one size slot too many.
MetadataExtraSlot(fs) ==
  [names_section_size |-> SumNames(fs),
   sizes_section_size |-> U64Size * (Len(fs) + 1),
   files_section_size |-> SumSizes(fs)]

\* Lines 300-307: the three section sizes, summed over the files.
Metadata(fs) ==
  [names_section_size |-> HeaderMetadata.names_section_size + SumNames(fs),
   sizes_section_size |-> HeaderMetadata.sizes_section_size
                            + U64Size * Len(fs),
   files_section_size |-> HeaderMetadata.files_section_size + SumSizes(fs)]

HeaderBytes(m) ==
  EncodeU64(m.names_section_size) \o EncodeU64(m.sizes_section_size)
    \o EncodeU64(m.files_section_size)

RECURSIVE WriteNames(_, _)
WriteNames(o, fs) ==
  IF fs = <<>> THEN o
  ELSE WriteNames(OutputWrite(o, Head(fs).name \o <<NUL>>), Tail(fs))

RECURSIVE WriteSizes(_, _)
WriteSizes(o, fs) ==
  IF fs = <<>> THEN o
  ELSE WriteSizes(OutputWrite(o, EncodeU64(Head(fs).size)), Tail(fs))

\* The byte-by-byte copy: `left` bytes from an input stream to a sink.
RECURSIVE CopyBytes(_, _, _)
CopyBytes(i, o, left) ==
  IF left = 0 THEN [in |-> i, out |-> o]
  ELSE LET r == InputRead(i, <<CHAR_MAX>>, 1)
       IN  CopyBytes(r.stream, OutputWrite(o, r.buf), left - 1)

RECURSIVE WritePayloads(_, _, _, _)
WritePayloads(o, fs, p_from_memory, dsk) ==
  IF fs = <<>> THEN o
  ELSE LET file == Head(fs)
           next == IF p_from_memory THEN OutputWrite(o, file.bytes)
                   ELSE CopyBytes(FileInput(CStr(file.name), dsk), o,
                                  file.size).out
       IN  WritePayloads(next, Tail(fs), p_from_memory, dsk)

\* The sink after the call, and the File the call returns (its bytes are
\* filled in by the memory overloads).
Bundle(p_output_stream, fs, p_from_memory, dsk) ==
  LET o1 == OutputWrite(p_output_stream, HeaderBytes(Metadata(fs)))
      o2 == WriteNames(o1, fs)
      o3 == WriteSizes(o2, fs)
      o4 == WritePayloads(o3, fs, p_from_memory, dsk)
  IN  [stream |-> o4,
       package |-> [name |-> o4.file_name, size |-> o4.total_bytes_written,
                    bytes |-> <<>>]]

(***************************************************************************)
(* debundle(Input_Stream&, p_output_directory, p_to_memory).  The frame    *)
(* holds the locals of the call and the filesystem it acts on; Step is one *)
(* step of the call: the header, one iteration of the inner while loop of  *)
(* the name loop, the size loop, the directory loop, one iteration of the  *)
(* extraction loop.  file_name is kept up to NameCap characters: the loop  *)
(* condition reads current_char only.                                      *)
(***************************************************************************)
Frame(p_input_stream, p_output_directory, p_to_memory, dsk, drs) ==
  [pc |-> "header",
   p_input_stream |-> p_input_stream,
   p_output_directory |-> p_output_directory,
   p_to_memory |-> p_to_memory,
   metadata |-> HeaderMetadata,
   number_of_bundled_files |-> 0,
   names_of_bundled_files |-> <<>>,
   sizes_of_bundled_files |-> <<>>,
   i |-> 0,
   file_name |-> <<>>,
   current_char |-> CHAR_MAX,
   debundled_files |-> <<>>,
   disk |-> dsk,
   dirs |-> drs,
   log |-> <<>>]

\* `return {};` of the File& overloads: no stream is opened.
Returned(dsk, drs) ==
  [Frame(MemoryInput(<<>>, 0), <<>>, TRUE, dsk, drs) EXCEPT !.pc = "done"]

\* Lines 401-423: the header, the file count, the seek to the names.
StepHeader(f) ==
  LET r == InputRead(f.p_input_stream, HeaderBytes(HeaderMetadata),
                     HeaderMetadataSize)
      m == [names_section_size |-> DecodeU64(SubSeq(r.buf, 1, 8)),
            sizes_section_size |-> DecodeU64(SubSeq(r.buf, 9, 16)),
            files_section_size |-> DecodeU64(SubSeq(r.buf, 17, 24))]
  IN  [f EXCEPT !.pc = "names",
                !.metadata = m,
                !.number_of_bundled_files = m.sizes_section_size \div U64Size,
                !.p_input_stream = InputSeekg(r.stream, HeaderMetadataSize)]

\* Lines 426-438: one pass of `while (current_char != '\0')`; the pass that
\* reads the NUL also ends the iteration of the for loop around it.
StepName(f) ==
  IF f.i < f.number_of_bundled_files
  THEN LET r == InputRead(f.p_input_stream, <<f.current_char>>, 1)
           c == r.buf[1]
           nm == IF Len(f.file_name) < NameCap THEN Append(f.file_name, c)
                 ELSE f.file_name
       IN  IF c = NUL
           THEN [f EXCEPT !.p_input_stream = r.stream,
                          !.names_of_bundled_files = Append(@, nm),
                          !.i = @ + 1,
                          !.file_name = <<>>,
                          !.current_char = CHAR_MAX]
           ELSE [f EXCEPT !.p_input_stream = r.stream,
                          !.file_name = nm,
                          !.current_char = c]
  ELSE [f EXCEPT !.pc = "sizes"]

RECURSIVE ReadSizes(_, _)
ReadSizes(s, n) ==
  IF n = 0 THEN [stream |-> s, sizes |-> <<>>]
  ELSE LET r == InputRead(s, EncodeU64(0), U64Size)
           rest == ReadSizes(r.stream, n - 1)
       IN  [stream |-> rest.stream,
            sizes |-> <<DecodeU64(r.buf)>> \o rest.sizes]

\* Lines 443-449.
StepSizes(f) ==
  LET r == ReadSizes(f.p_input_stream, f.number_of_bundled_files)
  IN  [f EXCEPT !.pc = "dirs",
                !.p_input_stream = r.stream,
                !.sizes_of_bundled_files = r.sizes]

\* Lines 461-470: the name up to its last separator, position 0 excluded.
OriginalPath(name) ==
  LET ks == {k \in 2..Len(name) : name[k] = Slash \/ name[k] = Backslash}
      k == CHOOSE k \in ks : \A j \in ks : j <= k
  IN  IF ks = {} THEN <<>> ELSE SubSeq(name, 1, k - 1)

\* fs::create_directories: the path and every directory above it.
CreateDirectories(path, drs) ==
  drs \cup {path}
      \cup {SubSeq(path, 1, k - 1) : k \in {j \in 2..Len(path) : path[j] = Slash}}

RECURSIVE MakeTrees(_, _)
MakeTrees(f, names) ==
  IF names = <<>> THEN f
  ELSE LET original_path == OriginalPath(Head(names))
           output_path == f.p_output_directory \o <<Slash>> \o original_path
           g == IF original_path # <<>>
                THEN [f EXCEPT !.dirs = CreateDirectories(output_path, @),
                               !.log = Append(@, [op |-> "mkdir",
                                                  path |-> output_path,
                                                  ok |-> TRUE, count |-> 0])]
                ELSE f
       IN  MakeTrees(g, Tail(names))

\* Lines 454-478: the loop breaks at once unless p_to_memory.
StepDirs(f) ==
  [(IF ~f.p_to_memory THEN f ELSE MakeTrees(f, f.names_of_bundled_files))
     EXCEPT !.pc = "extract", !.i = 0]

\* Lines 485-511: one file.
StepExtract(f) ==
  IF f.i < Len(f.names_of_bundled_files)
  THEN LET file_name == f.names_of_bundled_files[f.i + 1]
           file_size == f.sizes_of_bundled_files[f.i + 1]
           output_stream ==
             IF f.p_to_memory
             THEN MemoryOutput(Fill(file_size, 0), file_size)
             ELSE FileOutput(file_name, f.disk, f.dirs)
           c == CopyBytes(f.p_input_stream, output_stream, file_size)
           file == [FileDescriptor(file_name, file_size) EXCEPT
                      !.bytes = IF f.p_to_memory THEN c.out.memory ELSE <<>>]
       IN  [f EXCEPT
              !.p_input_stream = c.in,
              !.debundled_files = Append(@, file),
              !.i = @ + 1,
              !.disk = Flushed(c.out, @),
              !.log = IF f.p_to_memory THEN @
                      ELSE Append(@, [op |-> "open",
                                      path |-> output_stream.file.path,
                                      ok |-> output_stream.file.good,
                                      count |-> c.out.total_bytes_written])]
  ELSE [f EXCEPT !.pc = "done"]

Step(f) ==
  CASE f.pc = "header" -> StepHeader(f)
    [] f.pc = "names" -> StepName(f)
    [] f.pc = "sizes" -> StepSizes(f)
    [] f.pc = "dirs" -> StepDirs(f)
    [] f.pc = "extract" -> StepExtract(f)
    [] OTHER -> f

\* The call run until it returns, or until a step changes nothing any more.
RECURSIVE Debundle(_)
Debundle(f) ==
  IF f.pc = "done" \/ Step(f) = f THEN f ELSE Debundle(Step(f))

(***************************************************************************)
(* The public overloads of debundle: the frame each one starts from.       *)
(***************************************************************************)
\* debundle(p_bundle_address, p_bundle_size, p_output_directory).
DebundleMemoryToDisk(mem, p_output_directory, dsk, drs) ==
  Frame(MemoryInput(mem, Len(mem)), p_output_directory, FALSE, dsk, drs)

\* debundle(p_bundle_path, p_output_directory).
DebundleDiskToDisk(p_bundle_path, p_output_directory, dsk, drs) ==
  Frame(FileInput(CStr(p_bundle_path), dsk), p_output_directory, FALSE,
        dsk, drs)

\* debundle(p_bundle_address, p_bundle_size).
DebundleMemoryToMemory(mem, dsk, drs) ==
  Frame(MemoryInput(mem, Len(mem)), <<>>, TRUE, dsk, drs)

\* debundle(p_bundle_path).
DebundleDiskToMemory(p_bundle_path, dsk, drs) ==
  Frame(FileInput(CStr(p_bundle_path), dsk), <<>>, TRUE, dsk, drs)

\* debundle(File& p_package).
DebundleFile(p_package, dsk, drs) ==
  IF Len(p_package.bytes) > 0
  THEN DebundleMemoryToMemory(p_package.bytes, dsk, drs)
  ELSE IF p_package.name # <<>>
  THEN DebundleDiskToMemory(p_package.name, dsk, drs)
  ELSE Returned(dsk, drs)

\* debundle(File& p_package, p_output_directory).
DebundleFileTo(p_package, p_output_directory, dsk, drs) ==
  IF Len(p_package.bytes) > 0
  THEN DebundleMemoryToDisk(p_package.bytes, p_output_directory, dsk, drs)
  ELSE IF p_package.name # <<>>
  THEN DebundleDiskToDisk(p_package.name, p_output_directory, dsk, drs)
  ELSE Returned(dsk, drs)

(***************************************************************************)
(* The values the caller works with: names "a", "d/a" and "d\a", declared  *)
(* sizes, payloads, the bundle path "o" and the output directory "out".    *)
(* The working directory holds the files "a" and "d/a" and the             *)
(* directories "d" and "out".                                              *)
(***************************************************************************)
Names == {<<97>>, <<100, 47, 97>>, <<100, 92, 97>>}

Sizes == {0, 2}

Payloads == {<<>>, <<7, 9>>}

OutputPath == <<111>>

OutputDirectory == <<111, 117, 116>>

InitialDisk ==
  [p \in {<<97>>, <<100, 47, 97>>} |->
     IF p = <<97>> THEN <<1, 2>> ELSE <<3>>]

InitialDirs == {<<100>>, OutputDirectory}

NoRequest == [op |-> "none", arg |-> 0, offset |-> 0, buf |-> <<>>]

IdleCaller ==
  /\ p_files = <<>>
  /\ package = FileDefault
  /\ written = <<>>
  /\ log = <<>>
  /\ listed = <<>>
  /\ to_disk = FALSE
  /\ from_memory = TRUE

\* The bundle path is absent, or holds what an earlier run bundled there.
EarlierFiles == <<FileFromVector(<<100, 47, 97>>, <<4>>)>>

EarlierBundle ==
  Bundle(FileOutput(OutputPath, InitialDisk, InitialDirs), EarlierFiles,
         TRUE, InitialDisk).stream

IdleDisk ==
  /\ disk \in {InitialDisk, Flushed(EarlierBundle, InitialDisk)}
  /\ dirs = InitialDirs

IdleFrame == d = Returned(disk, dirs)

IdleStream ==
  /\ strm = MemoryInput(<<>>, 0)
  /\ dst = <<>>
  /\ last = NoRequest

Init == IdleCaller /\ IdleDisk /\ IdleFrame /\ IdleStream /\ pc = "build"

(***************************************************************************)
(* The caller fills its vector of File records.                            *)
(***************************************************************************)
Building == pc = "build" /\ Len(p_files) < MaxFiles

Front == SubSeq(p_files, 1, Len(p_files) - 1)

Back == p_files[Len(p_files)]

Untouched ==
  UNCHANGED <<package, written, disk, dirs, log, listed, to_disk,
              from_memory, d, strm, dst, last>>

PushDefault ==
  /\ Building
  /\ p_files' = Append(p_files, FileDefault)
  /\ UNCHANGED pc /\ Untouched

PushFromAddress ==
  /\ Building
  /\ \E n \in Names, mem \in Payloads :
       p_files' = Append(p_files, FileFromAddress(n, mem))
  /\ UNCHANGED pc /\ Untouched

PushFromVector ==
  /\ Building
  /\ \E n \in Names, v \in Payloads :
       p_files' = Append(p_files, FileFromVector(n, v))
  /\ UNCHANGED pc /\ Untouched

PushDescriptor ==
  /\ Building
  /\ \E n \in Names, sz \in Sizes :
       p_files' = Append(p_files, FileDescriptor(n, sz))
  /\ UNCHANGED pc /\ Untouched

SetSize ==
  /\ pc = "build" /\ p_files # <<>>
  /\ \E sz \in Sizes : p_files' = Append(Front, set_size(Back, sz))
  /\ UNCHANGED pc /\ Untouched

SetName ==
  /\ pc = "build" /\ p_files # <<>>
  /\ \E n \in Names : p_files' = Append(Front, set_name(Back, n))
  /\ UNCHANGED pc /\ Untouched

SetBytes ==
  /\ pc = "build" /\ p_files # <<>>
  /\ \E v \in Payloads : p_files' = Append(Front, set_bytes(Back, v))
  /\ UNCHANGED pc /\ Untouched

SetBytesFrom ==
  /\ pc = "build" /\ p_files # <<>>
  /\ \E mem \in Payloads : p_files' = Append(Front, set_bytes_from(Back, mem))
  /\ UNCHANGED pc /\ Untouched

(***************************************************************************)
(* The four overloads of bundle.  The overloads that read the files from   *)
(* disk first build their File list with fs::file_size and then copy:      *)
(* another process may change the files in between.                        *)
(***************************************************************************)
Calling == pc = "build"

Sink(td) ==
  IF td THEN FileOutput(OutputPath, disk, dirs) ELSE VectorOutput(0)

\* The bytes a call added to its sink.
WrittenBy(before, after) ==
  IF after.memory_set THEN after.memory
  ELSE SubSeq(after.file.content, Len(before.file.content) + 1,
              Len(after.file.content))

Returns(r, td) ==
  /\ package' = IF td THEN r.package
                ELSE [r.package EXCEPT !.bytes = r.stream.memory]
  /\ written' = WrittenBy(Sink(td), r.stream)
  /\ disk' = Flushed(r.stream, disk)
  /\ to_disk' = td
  /\ pc' = "bundled"

\* bundle(const std::vector<File>&).
BundleMemoryToMemory ==
  /\ Calling
  /\ Returns(Bundle(Sink(FALSE), p_files, TRUE, disk), FALSE)
  /\ listed' = p_files
  /\ from_memory' = TRUE
  /\ UNCHANGED <<p_files, dirs, log, d, strm, dst, last>>

\* bundle(p_bundle_output_path, const std::vector<File>&).
BundleMemoryToDisk ==
  /\ Calling
  /\ Returns(Bundle(Sink(TRUE), p_files, TRUE, disk), TRUE)
  /\ listed' = p_files
  /\ from_memory' = TRUE
  /\ UNCHANGED <<p_files, dirs, log, d, strm, dst, last>>

\* Lines 357-363 and 382-389: the sink is opened, then fs::file_size is asked
\* for each name; it throws for a name that is no file.  The names are those
\* of the caller's records.
BundleFromDiskBegin ==
  /\ Calling
  /\ \E td \in BOOLEAN :
       /\ to_disk' = td
       /\ disk' = Flushed(Sink(td), disk)
  /\ IF \A k \in 1..Len(p_files) : p_files[k].name \in DOMAIN disk
     THEN /\ listed' = [k \in 1..Len(p_files) |->
                          FileDescriptor(p_files[k].name,
                                         Len(disk[p_files[k].name]))]
          /\ pc' = "listed"
     ELSE /\ listed' = <<>>
          /\ pc' = "thrown"
  /\ from_memory' = FALSE
  /\ UNCHANGED <<p_files, package, written, dirs, log, d, strm, dst, last>>

ListedPaths == {listed[k].name : k \in 1..Len(listed)}

EnvUnchanged ==
  UNCHANGED <<p_files, package, written, dirs, log, listed, to_disk,
              from_memory, d, strm, dst, last>>

\* Another process removes, shortens or extends a listed file.
EnvRemove ==
  /\ pc = "listed"
  /\ \E p \in ListedPaths : disk' = [q \in DOMAIN disk \ {p} |-> disk[q]]
  /\ pc' = "raced"
  /\ EnvUnchanged

EnvTruncate ==
  /\ pc = "listed"
  /\ \E p \in ListedPaths :
       /\ disk[p] # <<>>
       /\ disk' = [disk EXCEPT ![p] = SubSeq(@, 1, Len(@) - 1)]
  /\ pc' = "raced"
  /\ EnvUnchanged

EnvExtend ==
  /\ pc = "listed"
  /\ \E p \in ListedPaths : disk' = [disk EXCEPT ![p] = Append(@, 5)]
  /\ pc' = "raced"
  /\ EnvUnchanged

\* Lines 365 and 391: bundle(output_stream, files, false).
BundleFromDiskFinish ==
  /\ pc \in {"listed", "raced"}
  /\ Returns(Bundle(Sink(to_disk), listed, FALSE, disk), to_disk)
  /\ UNCHANGED <<p_files, dirs, log, listed, from_memory, d, strm, dst, last>>

(***************************************************************************)
(* debundle of the returned File, to memory and to the output directory.   *)
(***************************************************************************)
Unpacked(f) ==
  /\ d' = f
  /\ disk' = f.disk
  /\ dirs' = f.dirs
  /\ log' = f.log
  /\ pc' = IF f.pc = "done" THEN "done" ELSE "hung"
  /\ UNCHANGED <<p_files, package, written, listed, to_disk, from_memory,
                 strm, dst, last>>

DebundleToMemory ==
  /\ pc = "bundled"
  /\ Unpacked(Debundle(DebundleFile(package, disk, dirs)))

DebundleToDisk ==
  /\ pc = "bundled"
  /\ Unpacked(Debundle(DebundleFileTo(package, OutputDirectory, disk, dirs)))

Next ==
  \/ PushDefault
  \/ PushFromAddress
  \/ PushFromVector
  \/ PushDescriptor
  \/ SetSize
  \/ SetName
  \/ SetBytes
  \/ SetBytesFrom
  \/ BundleMemoryToMemory
  \/ BundleMemoryToDisk
  \/ BundleFromDiskBegin
  \/ EnvRemove
  \/ EnvTruncate
  \/ EnvExtend
  \/ BundleFromDiskFinish
  \/ DebundleToMemory
  \/ DebundleToDisk

Spec == Init /\ [][Next]_vars

(***************************************************************************)
(* A memory-backed Input_Stream under any sequence of reads and seeks.     *)
(* The region holds 1, 2, ..., and a destination buffer starts out filled  *)
(* with CHAR_MAX.                                                          *)
(***************************************************************************)
InitStream ==
  /\ IdleCaller
  /\ disk = InitialDisk /\ dirs = InitialDirs
  /\ IdleFrame
  /\ pc = "stream"
  /\ \E m \in 0..MaxMem : strm = MemoryInput([k \in 1..m |-> k], m)
  /\ dst = <<>>
  /\ last = NoRequest

StreamUnchanged ==
  UNCHANGED <<p_files, package, written, disk, dirs, log, pc, listed,
              to_disk, from_memory, d>>

StreamRead ==
  /\ pc = "stream"
  /\ \E count \in 0..MaxCount :
       LET buf == Fill(count, CHAR_MAX)
           r == InputRead(strm, buf, count)
       IN  /\ strm' = r.stream
           /\ dst' = r.buf
           /\ last' = [op |-> "read", arg |-> count,
                       offset |-> strm.current_offset, buf |-> buf]
  /\ StreamUnchanged

StreamSeekg ==
  /\ pc = "stream"
  /\ \E p_offset \in 0..(MaxMem + 1) :
       /\ strm' = InputSeekg(strm, p_offset)
       /\ last' = [op |-> "seekg", arg |-> p_offset,
                   offset |-> strm.current_offset, buf |-> <<>>]
  /\ UNCHANGED dst
  /\ StreamUnchanged

NextStream == StreamRead \/ StreamSeekg

SpecStream == InitStream /\ [][NextStream]_vars

(***************************************************************************)
(* debundle, step by step, on every prefix of a bundle: read from memory   *)
(* or from the bundle path, extracted to memory or to the output           *)
(* directory.  The calling thread always takes its next step.              *)
(***************************************************************************)
UnpackLists ==
  {<<>>,
   <<FileFromVector(<<100, 47, 97>>, <<7, 9>>)>>,
   <<FileFromVector(<<100, 47, 97>>, <<7, 9>>), FileFromVector(<<97>>, <<>>)>>}

BundleBytes(fs) == Bundle(VectorOutput(0), fs, TRUE, InitialDisk).stream.memory

InitUnpack ==
  /\ IdleCaller
  /\ IdleStream
  /\ pc = "unpack"
  /\ dirs = InitialDirs
  /\ \E fs \in UnpackLists, in_memory \in BOOLEAN, tm \in BOOLEAN :
       \E n \in 0..Len(BundleBytes(fs)) :
         LET src == SubSeq(BundleBytes(fs), 1, n)
             dsk == [p \in DOMAIN InitialDisk \cup {OutputPath} |->
                       IF p = OutputPath THEN src ELSE InitialDisk[p]]
         IN  /\ disk = dsk
             /\ d = IF in_memory
                    THEN IF tm
                         THEN DebundleMemoryToMemory(src, dsk, InitialDirs)
                         ELSE DebundleMemoryToDisk(src, OutputDirectory, dsk,
                                                   InitialDirs)
                    ELSE IF tm
                         THEN DebundleDiskToMemory(OutputPath, dsk,
                                                   InitialDirs)
                         ELSE DebundleDiskToDisk(OutputPath, OutputDirectory,
                                                 dsk, InitialDirs)

UnpackStep ==
  /\ pc = "unpack"
  /\ d.pc # "done"
  /\ d' = Step(d)
  /\ disk' = d'.disk
  /\ dirs' = d'.dirs
  /\ log' = d'.log
  /\ UNCHANGED <<p_files, package, written, pc, listed, to_disk, from_memory,
                 strm, dst, last>>

NextUnpack == UnpackStep

SpecUnpack == InitUnpack /\ [][NextUnpack]_vars

FairSpecUnpack == SpecUnpack /\ WF_vars(UnpackStep)

(***************************************************************************)
(* What the properties below are stated with.                              *)
(***************************************************************************)
RECURSIVE Concat(_)
Concat(ss) == IF ss = <<>> THEN <<>> ELSE Head(ss) \o Concat(Tail(ss))

Materialized(f) == Len(f.bytes) = f.size

NamesSection(fs) == Concat([k \in 1..Len(fs) |-> fs[k].name \o <<0>>])

SizesSection(fs) == Concat([k \in 1..Len(fs) |-> EncodeU64(fs[k].size)])

DeclaredSection(fs) == Concat([k \in 1..Len(fs) |-> Fill(fs[k].size, 0)])

PayloadSection(fs) == Concat([k \in 1..Len(fs) |-> fs[k].bytes])

HasSeparator(n) == \E k \in 1..Len(n) : n[k] = 47 \/ n[k] = 92

\* The name up to its last separator.
ParentDirectory(n) ==
  LET ks == {k \in 1..Len(n) : n[k] = 47 \/ n[k] = 92}
      k == CHOOSE k \in ks : \A j \in ks : j <= k
  IN  IF ks = {} THEN <<>> ELSE SubSeq(n, 1, k - 1)

Joined(dir, n) == dir \o <<47>> \o n

\* The place in the log where the k-th file is opened for writing.
OpenIndex(k) ==
  CHOOSE i \in 1..Len(log) :
    /\ log[i].op = "open"
    /\ Cardinality({j \in 1..i : log[j].op = "open"}) = k

\* The bytes the input stream of debundle was opened on.
SourceBytes ==
  IF d.p_input_stream.memory_set THEN d.p_input_stream.memory
  ELSE d.p_input_stream.file.content

BundledNames == [k \in 1..Len(d.names_of_bundled_files) |->
                   CStr(d.names_of_bundled_files[k])]

\* C1: bundle to memory followed by debundle to memory returns, for
\* materialized records, a list of the same length whose i-th record has the
\* name, the size and the payload of the i-th input record.
C1_RoundTrip ==
  ( /\ pc = "done" /\ from_memory /\ ~to_disk /\ d.p_to_memory
    /\ \A k \in 1..Len(p_files) : Materialized(p_files[k]) )
  => /\ Len(d.debundled_files) = Len(p_files)
     /\ \A k \in 1..Len(p_files) :
          /\ d.debundled_files[k].name = p_files[k].name
          /\ d.debundled_files[k].size = p_files[k].size
          /\ d.debundled_files[k].bytes = p_files[k].bytes

\* C2: whatever list bundle is given, from memory or from disk, the sink
\* receives the 24-byte header, the names with their zero bytes, the declared
\* sizes and the payloads, in input order, and both the number of bytes
\* written and the returned size are 24 + names + sizes + files section size.
C2_BundleLayout ==
  pc \in {"bundled", "done"}
  => LET names == NamesSection(listed)
         sizes == SizesSection(listed)
         head == EncodeU64(Len(names)) \o EncodeU64(8 * Len(listed))
                   \o EncodeU64(Len(DeclaredSection(listed)))
         total == 24 + Len(names) + Len(sizes) + Len(DeclaredSection(listed))
     IN  /\ Len(written) = total
         /\ package.size = total
         /\ SubSeq(written, 1, Len(head \o names \o sizes))
              = head \o names \o sizes
         /\ from_memory
              => SubSeq(written, Len(head \o names \o sizes) + 1, Len(written))
                   = PayloadSection(listed)

\* C3: debundle to disk creates, for every bundled name with a separator, the
\* parent directory under the output directory before that file is opened
\* for writing; debundle to memory creates no directory.  (Stated for the
\* debundle of exactly the bytes the bundle call wrote.)
C3_DirectoryReconstruction ==
  (pc = "done" /\ SourceBytes = written)
  => IF d.p_to_memory
     THEN /\ \A i \in 1..Len(log) : log[i].op # "mkdir"
          /\ dirs = InitialDirs
     ELSE \A k \in 1..Len(BundledNames) :
            HasSeparator(BundledNames[k])
            => \E i \in 1..(OpenIndex(k) - 1) :
                 /\ log[i].op = "mkdir"
                 /\ log[i].path
                      = Joined(OutputDirectory, ParentDirectory(BundledNames[k]))

\* C4: debundle to disk with output directory D writes every bundled file n
\* to D joined with n, copies exactly its declared size, and writes no file
\* outside D.  (Stated for the debundle of exactly the bytes the bundle call
\* wrote.)
C4_DiskExtractionTarget ==
  (pc = "done" /\ ~d.p_to_memory /\ SourceBytes = written)
  => \A k \in 1..Len(BundledNames) :
       LET e == log[OpenIndex(k)]
           target == Joined(OutputDirectory, BundledNames[k])
       IN  /\ e.path = target
           /\ e.ok
           /\ e.count = d.sizes_of_bundled_files[k]
           /\ target \in DOMAIN disk

\* C5: bundle of an empty list writes exactly 24 zero bytes and returns size
\* 24, and debundle of that 24-byte bundle, from memory or from a file,
\* returns an empty list.
C5_ZeroFileBundle ==
  /\ (pc \in {"bundled", "done"} /\ listed = <<>>)
     => /\ written = Fill(24, 0)
        /\ package.size = 24
        /\ ~to_disk => package.bytes = Fill(24, 0)
  /\ (pc \in {"done", "hung"} /\ SourceBytes = Fill(24, 0))
     => /\ pc = "done"
        /\ d.debundled_files = <<>>

\* The empty list was bundled to memory and the 24 bytes debundled.
C5_Witness ==
  /\ pc = "done" /\ listed = <<>> /\ ~to_disk
  /\ d.p_input_stream.memory_set
  /\ SourceBytes = Fill(24, 0)
  /\ package.bytes = SourceBytes

\* C6: when bundle reads the files from disk and returns an artifact, every
\* listed path could be opened and had the size recorded for it: a path that
\* cannot be opened, or whose size changed, ends the call with an error.
C6_PackFailure ==
  (pc = "bundled" /\ ~from_memory)
  => \A k \in 1..Len(listed) :
       /\ listed[k].name \in DOMAIN disk
       /\ Len(disk[listed[k].name]) = listed[k].size

\* C7: debundle returns for every input byte source, truncated ones
\* included.
C7_DebundleReturns == <>(d.pc = "done")

\* C8: every File record, after any constructors and setters and as returned
\* by debundle to memory, has a byte buffer that is empty or as long as its
\* size.
C8_RecordInvariant ==
  /\ \A k \in 1..Len(p_files) :
       p_files[k].bytes # <<>> => Materialized(p_files[k])
  /\ d.p_to_memory
       => \A k \in 1..Len(d.debundled_files) :
            d.debundled_files[k].bytes # <<>>
            => Materialized(d.debundled_files[k])

C10_DiskArtifact ==
  /\ (pc = "bundled" /\ to_disk)
     => /\ disk[OutputPath] = written
        /\ Len(disk[OutputPath]) = package.size
  /\ (pc = "done" /\ to_disk)
     => /\ Len(BundledNames) = Len(listed)
        /\ \A k \in 1..Len(listed) :
             /\ BundledNames[k] = listed[k].name
             /\ d.sizes_of_bundled_files[k] = listed[k].size

====
